---- MODULE Spec2Model ----
(***************************************************************************)
(* State-machine model of the Commit Teacher replay session:               *)
(*   GitHandler        (src/src/commit_teacher/git_handler.py)             *)
(*   CacheHandler      (src/src/commit_teacher/cache.py)                   *)
(*   StorageHandler    (src/src/commit_teacher/storage.py)                 *)
(*   CodeAnalyzer      (src/src/commit_teacher/analyzer.py)                *)
(*   CommitTeacherApp  (src/src/commit_teacher/ui/app.py)                  *)
(*                                                                         *)
(* Texts (explanations, architecture documents) are sequences of tokens.   *)
(* The tokens that the code searches for are                               *)
(*   "INIT"  = "# Initial Commit"                                          *)
(*   "UPD"   = "## Updated Architecture"                                   *)
(*   "NOUPD" = "NO ARCHITECTURE UPDATE NEEDED"                             *)
(*   "ARCH"  = a heading containing "# Architecture"                       *)
(*   "WS"    = white space                                                 *)
(*   "CR"    = carriage return, "LF" = line feed                           *)
(* every other token is opaque prose.  The empty sequence is the empty     *)
(* string.  Python's None is the distinguished value None.                 *)
(***************************************************************************)
EXTENDS Integers, Sequences, FiniteSets, TLC

\* Largest number of commits the repository history grows to.
MaxCommits == 2

VARIABLES
  io_faulty,             \* how a write may fail (IOError): "none", "open", "write"
  origins,               \* the repository sources a user may name
  repoLen,               \* number of commits of the repository on its source
  disk,                  \* persisted cache manifest  data/<repo>.cache.json
  archFile,              \* persisted architecture    data/<repo>.architecture.md
  phase,                 \* screen / life-cycle position of the process:
                         \*   "setup"   setup screen, no repository attached
                         \*   "loading" commit screen of a repository named on the
                         \*             command line (initial_repo), not yet attached
                         \*   "ready"   commit screen, repository attached
                         \*   "stalled" commit screen left by a failed attach
                         \*   "crashed" an exception left a handler
                         \*   "exited"  no process
  use_cache,             \* CommitTeacherApp.use_cache
  auto_resume,           \* CommitTeacherApp.auto_resume
  api_key,               \* GEMINI_API_KEY is present in the environment
  repo_url,              \* the source the user names (CloneRepository.repo_url)
  repo,                  \* GitHandler.repo is set
  repo_path,             \* GitHandler.repo_path is set
  commits,               \* GitHandler.commits
  current_commit_index,  \* GitHandler.current_commit_index
  analyzer,              \* CommitTeacherApp.analyzer is set
  storage,               \* CommitTeacherApp.storage is set
  cache_file,            \* CacheHandler.cache_file is set
  cache_data,            \* CacheHandler.cache_data
  architecture,          \* CommitTeacherApp.architecture
  last_explanation,      \* CommitTeacherApp.last_explanation
  lastOp,                \* observation of the handler that ran last
  session                \* history of this process: whether it attached, with
                         \* caching enabled, a repository that had no manifest,
                         \* and the explanation Bootstrap synthesized then

vars == <<io_faulty, origins, repoLen, disk, archFile, phase, use_cache, auto_resume,
          api_key, repo_url, repo, repo_path, commits, current_commit_index, analyzer, storage,
          cache_file, cache_data, architecture, last_explanation, lastOp,
          session>>

gitVars == <<repo, repo_path, commits, current_commit_index>>
flagVars == <<use_cache, auto_resume, api_key, repo_url>>

-----------------------------------------------------------------------------
(* Texts *)

None == <<"<None>">>

Contains(t, tok) == \E i \in 1..Len(t) : t[i] = tok

FirstIndex(t, tok) ==
  CHOOSE i \in 1..Len(t) : t[i] = tok /\ \A j \in 1..(i-1) : t[j] # tok

WhiteSpace == {"WS", "CR", "LF"}

\* str.strip(): drop leading and trailing white space
RECURSIVE LStrip(_)
LStrip(t) == IF t # <<>> /\ Head(t) \in WhiteSpace THEN LStrip(Tail(t)) ELSE t

RECURSIVE RStrip(_)
RStrip(t) ==
  IF t # <<>> /\ t[Len(t)] \in WhiteSpace
    THEN RStrip(SubSeq(t, 1, Len(t) - 1)) ELSE t

Strip(t) == RStrip(LStrip(t))

\* t.split(tok)[1]: the text between the first occurrence of tok and the next
SplitSecond(t, tok) ==
  LET rest == SubSeq(t, FirstIndex(t, tok) + 1, Len(t))
  IN  IF Contains(rest, tok)
        THEN SubSeq(rest, 1, FirstIndex(rest, tok) - 1)
        ELSE rest

\* reading a file opened in text mode (storage.py:58-59): universal newlines,
\* "\r\n" and "\r" both arrive as "\n"
RECURSIVE ReadText(_)
ReadText(t) ==
  IF t = << >> THEN << >>
  ELSE IF Head(t) = "CR"
    THEN IF Len(t) >= 2 /\ t[2] = "LF"
           THEN <<"LF">> \o ReadText(Tail(Tail(t)))
           ELSE <<"LF">> \o ReadText(Tail(t))
    ELSE <<Head(t)>> \o ReadText(Tail(t))

\* truthiness of an Optional[str]
Truthy(t) == t # None /\ t # <<>>

\* what the Gemini model may answer to "explain this commit"
ExplainResponses ==
  { <<>>,
    <<"E2", "UPD", "A2">>,
    <<"E3", "UPD", "NOUPD">>,
    <<"E4", "UPD", "WS">> }

\* analyzer.py:166  f"Error analyzing commit: {str(e)}"
ExplainError == <<"ERR">>

\* analyzer.py:99
NoDiffText == <<"FIRSTNODIFF">>

\* what the Gemini model may answer to "describe the architecture"
DescribeResponses == { <<"ARCH", "CR", "LF", "A1">> }

\* analyzer.py:75  f"Error analyzing architecture: {str(e)}"
DescribeError == <<"ERRA">>

\* app.py:216
Placeholder == <<"NOCACHED">>

\* app.py:278-283
InitialExplanation(arch) == <<"INIT", "WS", "BOILER", "WS">> \o arch \o <<"WS">>

-----------------------------------------------------------------------------
(* GitHandler *)

\* full hash of the i-th commit (1-based): a 7-character prefix and the rest.
\* Distinct commits of one history have distinct prefixes.
FullSha(i) == <<i, 0>>

\* hexsha[:7]
ShortSha(h) == h[1]

RepoCommits(n) == [i \in 1..n |-> FullSha(i)]

\* Python list indexing commits[i] with 0-based and negative indices
PyIndex(s, i) == IF i >= 0 THEN s[i + 1] ELSE s[Len(s) + i + 1]

\* git_handler.py:201
AtLatest(idx, cs) == idx >= Len(cs) - 1

\* variant: the first commit is not taken for the lower edge
AtFirstStrict(idx) == idx < 0

\* git_handler.py:227
AtFirst(idx) == idx <= 0

\* git_handler.py:206
NextIndex(idx) == idx + 1

\* git_handler.py:232
PrevIndex(idx) == idx - 1

\* git_handler.py:326-332 with app.py:365: the short hash of the current
\* commit, the empty string without one
EmptySha == 0

CurrentSha(idx, cs) ==
  IF idx < 0 \/ idx >= Len(cs) THEN EmptySha ELSE ShortSha(cs[idx + 1])

\* variant: the newest commit cannot be indexed
IndexErrorAtNewest(idx, cs) == idx >= Len(cs) - 1 \/ idx < -Len(cs)

\* git_handler.py:207 / 233: commits[i] raises IndexError
IndexError(idx, cs) == idx >= Len(cs) \/ idx < -Len(cs)

\* git_handler.py:197 / 223 / 176
NoRepository(r, cs) == ~r \/ cs = <<>>

\* variant: the index is returned as it is
get_progress_zero_based(idx, cs) == <<idx, Len(cs)>>

\* git_handler.py:406-412
get_progress(idx, cs) == <<idx + 1, Len(cs)>>

\* git_handler.py:263-279: a diff exists only past the first commit
DiffPossible(idx) == idx > 0

\* git_handler.py:272-279: whether get_commit_diff returns a diff.  A commit
\* after the first is taken to change something, and git diff to succeed
DiffOutcomes(idx) == IF DiffPossible(idx) THEN {TRUE} ELSE {FALSE}

-----------------------------------------------------------------------------
(* CacheHandler *)

EmptyMap == << >>

\* a source is the list of the segments of its path; no source is named
NoUrl == << >>

\* two sources with the same last path segment, one a fork of the other:
\* the same history under the same commit ids
Origins == { <<"alice", "proj">>, <<"bob", "proj">> }

\* app.py:140-146: the name the two files are keyed by
RepoName(url) == url[Len(url)]

\* cache_data = {} read through .get() with its defaults
EmptyData == [commits |-> EmptyMap, last_commit_index |-> -1, total_commits |-> 0]

\* cache.py:68-79
InitializedData == [commits |-> EmptyMap, last_commit_index |-> -1, total_commits |-> 0]

\* variant: the "commits" object is written empty
DumpWithoutCommits(data) ==
  [last_commit_index |-> data.last_commit_index,
   total_commits |-> data.total_commits,
   commits |-> {}]

\* cache.py:184-185  json.dump: the manifest as a JSON document, its "commits"
\* member an object with one member (key, explanation) for each cached commit
Dump(data) ==
  [last_commit_index |-> data.last_commit_index,
   total_commits |-> data.total_commits,
   commits |-> { <<sha, data.commits[sha]>> : sha \in DOMAIN data.commits }]

\* cache.py:49-50  json.load: the dict a JSON document is parsed into
Load(doc) ==
  [commits |-> [sha \in { m[1] : m \in doc.commits } |->
                  (CHOOSE m \in doc.commits : m[1] = sha)[2]],
   last_commit_index |-> doc.last_commit_index,
   total_commits |-> doc.total_commits]

\* what the manifest file may hold:
\*   "nofile"       there is no file
\*   "ok"           a JSON document written by _save_to_disk
\*   "corrupt"      text that is no JSON document, or a file that cannot be
\*                  read (json.JSONDecodeError, IOError)
\*   "undecodable"  bytes that are no UTF-8 text (UnicodeDecodeError, which
\*                  is neither a JSONDecodeError nor an IOError)
\* With the document the file carries "origin", the source named by the
\* session that created the file: for a manifest load_cache initialised, the
\* value of the document's "repo_url" member (cache.py:72), which no later
\* write changes and no code reads.
NoFile == [kind |-> "nofile", data |-> Dump(EmptyData), origin |-> NoUrl]
Corrupt == [kind |-> "corrupt", data |-> Dump(EmptyData), origin |-> NoUrl]
Undecodable == [kind |-> "undecodable", data |-> Dump(EmptyData), origin |-> NoUrl]
Manifest(d) == [kind |-> "ok", data |-> Dump(d), origin |-> NoUrl]

\* cache.py:48-59: reading the file raises an exception load_cache lets through
LoadRaises(d) == d.kind = "undecodable"

\* cache.py:34-66: the in-memory manifest after load_cache
load_cache(d) == IF d.kind = "ok" THEN Load(d.data) ELSE InitializedData

\* cache.py:34-66: the value load_cache returns
cache_exists(d) == d.kind = "ok"

\* cache.py:109-125
get_commit_analysis(data, sha) ==
  IF sha \in DOMAIN data.commits THEN data.commits[sha] ELSE None

\* cache.py:95-104
PutAnalysis(data, sha, text) ==
  [data EXCEPT !.commits =
     [s \in (DOMAIN data.commits) \cup {sha} |->
        IF s = sha THEN text ELSE data.commits[s]]]

\* cache.py:135-136
PutPosition(data, idx, total) ==
  [data EXCEPT !.last_commit_index = idx, !.total_commits = total]

\* cache.py:200-201
PutTotal(data, total) == [data EXCEPT !.total_commits = total]

\* cache.py:140-149
get_last_position(data) == <<data.last_commit_index, data.total_commits>>

\* variant: the difference is reported as it is
update_total_commits_signed(data, total) ==
  [data |-> PutTotal(data, total),
   info |-> [new_commits |-> total - data.total_commits,
             old_total |-> data.total_commits,
             new_total |-> total]]

\* cache.py:190-214: the manifest afterwards and the dictionary returned
update_total_commits(data, total) ==
  LET old_total == data.total_commits
      new_commits_count == IF total - old_total > 0 THEN total - old_total ELSE 0
  IN  [data |-> PutTotal(data, total),
       info |-> [new_commits |-> new_commits_count,
                 old_total |-> old_total,
                 new_total |-> total]]

\* round(n / d, 0) as Python rounds: to the nearest integer, a tie to the even one
RoundHalfEven(n, d) ==
  LET q == n \div d
      r == n % d
  IN  IF 2 * r < d THEN q
      ELSE IF 2 * r > d THEN q + 1
      ELSE IF q % 2 = 0 THEN q ELSE q + 1

\* cache.py:151-170: get_cache_stats; coverage_percent has one decimal and is
\* given in tenths of a percent
get_cache_stats(data) ==
  LET commits_cached == Cardinality(DOMAIN data.commits)
      total_commits == data.total_commits
  IN  [commits_cached |-> commits_cached,
       total_commits |-> total_commits,
       coverage_percent |-> IF total_commits > 0
                              THEN RoundHalfEven(commits_cached * 1000, total_commits)
                              ELSE 0,
       last_position |-> data.last_commit_index + 1]

\* cache.py:172-174
has_cache_for_repo(data) == Cardinality(DOMAIN data.commits) > 0

\* outcomes of opening and writing a file (cache.py:182-188, storage.py:37-44):
\* written; "ioerror", open() raised and the file is as it was; "torn", open()
\* truncated the file and the write raised before the content was complete
WriteOutcomes ==
  CASE io_faulty = "open" -> {"ok", "ioerror"}
    [] io_faulty = "write" -> {"ok", "torn"}
    [] OTHER -> {"ok"}

\* cache.py:187-188: the number of IOErrors one write logs and swallows
WriteErrors(hasFile, outcome) ==
  IF hasFile /\ outcome \in {"ioerror", "torn"} THEN 1 ELSE 0

\* cache.py:176-188
save_to_disk(hasFile, data, d, outcome) ==
  IF ~hasFile THEN d
  ELSE IF outcome = "ok"
         THEN [Manifest(data) EXCEPT !.origin = IF d.kind = "ok" THEN d.origin
                                                                 ELSE repo_url]
  ELSE IF outcome = "torn" THEN Corrupt
  ELSE d

-----------------------------------------------------------------------------
(* StorageHandler *)

\* variant: the document is not written
save_architecture_lost(file, content, outcome) == file

\* storage.py:27-44
save_architecture(file, content, outcome) ==
  IF outcome = "ok" THEN content
  ELSE IF outcome = "torn" THEN << >>
  ELSE file

\* storage.py:74-84
update_architecture(file, content, outcome) ==
  save_architecture(file, content, outcome)

\* storage.py:66-72
architecture_exists(file) == file # None

\* storage.py:46-64
load_architecture(file) == IF file = None THEN None ELSE ReadText(file)

-----------------------------------------------------------------------------
(* CodeAnalyzer *)

\* analyzer.py:153-162: the replacement architecture read from a response
UpdatedArch(response) ==
  IF Contains(response, "UPD")
    THEN LET arch_section == Strip(SplitSecond(response, "UPD"))
         IN  IF ~Contains(arch_section, "NOUPD") THEN arch_section ELSE None
    ELSE None

\* variant: the failure text is returned as a replacement architecture too
analyze_commit_changes_leaking(hasDiff) ==
  IF ~hasDiff
    THEN { [explanation |-> NoDiffText, updated_arch |-> None, api |-> 0] }
    ELSE { [explanation |-> r, updated_arch |-> UpdatedArch(r), api |-> 1] :
             r \in ExplainResponses }
         \cup { [explanation |-> ExplainError, updated_arch |-> ExplainError, api |-> 1] }

\* analyzer.py:77-166: the results analyze_commit_changes may return, each
\* with the number of requests sent to the model
analyze_commit_changes(hasDiff) ==
  IF ~hasDiff
    THEN { [explanation |-> NoDiffText, updated_arch |-> None, api |-> 0] }
    ELSE { [explanation |-> r, updated_arch |-> UpdatedArch(r), api |-> 1] :
             r \in ExplainResponses }
         \cup { [explanation |-> ExplainError, updated_arch |-> None, api |-> 1] }

\* analyzer.py:32-75
analyze_initial_architecture == DescribeResponses \cup {DescribeError}

-----------------------------------------------------------------------------
(* CommitTeacherApp *)

NoSession == [fresh |-> FALSE, bootText |-> None]

\* no call of update_total_commits was made
NoInfo == [new_commits |-> 0, old_total |-> 0, new_total |-> 0]

\* what a handler reports about itself
OpBase ==
  [kind |-> "start", result |-> "ok", mode |-> "none", hit |-> FALSE,
   describeCalls |-> 0, explainCalls |-> 0, apiCalls |-> 0,
   saveAnalysisCalls |-> 0, saveCursorCalls |-> 0, totalCalls |-> 0,
   steps |-> 0, truncated |-> FALSE, target |-> -1, trace |-> << >>,
   info |-> NoInfo, ioErrors |-> 0, files |-> << >>, sample |-> {}]

\* app.py:35-47 and GitHandler.__init__, CacheHandler.__init__
Fresh(len, uc, ar, key) ==
  /\ repoLen' = len
  /\ use_cache' = uc
  /\ auto_resume' = ar
  /\ api_key' = key
  /\ repo' = FALSE
  /\ repo_path' = FALSE
  /\ commits' = << >>
  /\ current_commit_index' = -1
  /\ analyzer' = FALSE
  /\ storage' = FALSE
  /\ cache_file' = FALSE
  /\ cache_data' = EmptyData
  /\ architecture' = None
  /\ last_explanation' = None
  /\ session' = NoSession

Init ==
  /\ io_faulty = "none"
  /\ origins = {<<"alice", "proj">>}
  /\ repoLen \in 1..MaxCommits
  /\ use_cache \in BOOLEAN
  /\ auto_resume \in BOOLEAN
  /\ api_key \in BOOLEAN
  /\ repo_url \in origins
  /\ phase \in {"loading", "setup"}
  /\ disk = NoFile
  /\ archFile = None
  /\ repo = FALSE
  /\ repo_path = FALSE
  /\ commits = << >>
  /\ current_commit_index = -1
  /\ analyzer = FALSE
  /\ storage = FALSE
  /\ cache_file = FALSE
  /\ cache_data = EmptyData
  /\ architecture = None
  /\ last_explanation = None
  /\ lastOp = OpBase
  /\ session = NoSession

\* main.py:84-95, commit.py:165-167: the application exits; what the process
\* held in memory is gone, the two files stay
Quit ==
  /\ phase # "exited"
  /\ Fresh(repoLen, FALSE, FALSE, FALSE)
  /\ repo_url' = NoUrl
  /\ phase' = "exited"
  /\ lastOp' = [OpBase EXCEPT !.kind = "quit"]
  /\ UNCHANGED <<io_faulty, origins, disk, archFile>>

\* what the manifest file may have become while no process was running
Damaged(d) == IF d.kind = "ok" THEN {d, Corrupt, Undecodable} ELSE {d}

\* main.py:73-91: the program is started again with its command-line flags;
\* the history may have grown, or have been cut back, and the manifest file
\* may have been damaged, in the meantime
Start ==
  /\ phase = "exited"
  /\ \E len \in 1..MaxCommits, cli \in BOOLEAN, uc \in BOOLEAN,
        ar \in BOOLEAN, key \in BOOLEAN, url \in origins :
       /\ Fresh(len, uc, ar, key)
       /\ repo_url' = url
       /\ phase' = (IF cli THEN "loading" ELSE "setup")
       /\ lastOp' = OpBase
  /\ disk' \in Damaged(disk)
  /\ UNCHANGED <<io_faulty, origins, archFile>>

\* app.py:179-184
should_resume(uc, ar, last_index, data, total_commits) ==
  /\ uc
  /\ (ar \/ last_index >= 0)
  /\ has_cache_for_repo(data)
  /\ last_index < total_commits

\* variant: one forward step too few
ResumeRangeShort(last_index) == IF last_index > 1 THEN last_index - 1 ELSE 0

\* app.py:191  range(last_index)
ResumeRange(last_index) == IF last_index > 0 THEN last_index ELSE 0

\* app.py:198-208
ResumeArchitecture(data, cs, file) ==
  LET cached_explanation == get_commit_analysis(data, ShortSha(cs[1]))
  IN  IF Truthy(cached_explanation)
        THEN IF Contains(cached_explanation, "ARCH")
               THEN IF Contains(cached_explanation, "INIT")
                      THEN Strip(SplitSecond(cached_explanation, "INIT"))
                      ELSE cached_explanation
               ELSE load_architecture(file)
        ELSE load_architecture(file)

\* app.py:211-216
ResumeExplanation(data, cs, last_index) ==
  LET cached_current == get_commit_analysis(data, ShortSha(PyIndex(cs, last_index)))
  IN  IF Truthy(cached_current) THEN cached_current ELSE Placeholder

\* variant: the architecture file is read whatever the cached text holds
BootstrapArchitectureFromFile(cached_explanation, file) == load_architecture(file)

\* app.py:245-254
BootstrapArchitecture(cached_explanation, file) ==
  IF Contains(cached_explanation, "INIT")
    THEN Strip(SplitSecond(cached_explanation, "INIT"))
    ELSE load_architecture(file)

\* variant: the cache is never consulted
CacheNeverHit(data, sha) == FALSE

\* variant: a cached failure text is not used
CacheHitUnlessError(data, sha) ==
  Truthy(get_commit_analysis(data, sha)) /\ get_commit_analysis(data, sha) # ExplainError

\* app.py:368-370 and 243-245: a cached explanation is found and used
CacheHit(data, sha) == Truthy(get_commit_analysis(data, sha))

\* variant: the sentinel is not looked for
CachedArchUpdateAnySection(cached_explanation) ==
  IF Contains(cached_explanation, "UPD")
    THEN <<Strip(SplitSecond(cached_explanation, "UPD"))>>
    ELSE << >>

\* app.py:374-379: the architecture section a cached explanation carries
CachedArchUpdate(cached_explanation) ==
  IF Contains(cached_explanation, "UPD")
    THEN LET arch_section == Strip(SplitSecond(cached_explanation, "UPD"))
         IN  IF ~Contains(arch_section, "NOUPD") THEN <<arch_section>> ELSE << >>
    ELSE << >>

\* app.py:374-379: what a Resolve that the cache answers does, in order
HitTrace(adopts) == IF adopts THEN <<"arch">> ELSE << >>

\* variant: the cached text is saved back before the Analyzer is asked
MissTraceCacheFirst(uc, adopts) ==
  (IF uc THEN <<"cache">> ELSE << >>) \o <<"analyze">>
    \o (IF adopts THEN <<"arch">> ELSE << >>)

\* app.py:386-401: what a Resolve that asks the Analyzer does, in order:
\* the Analyzer call, the architecture write, the cache write
MissTrace(uc, adopts) ==
  <<"analyze">> \o (IF adopts THEN <<"arch">> ELSE << >>)
    \o (IF uc THEN <<"cache">> ELSE << >>)

\* app.py:367-380: analyze_current_commit when the cache answers
ResolveHit(data, sha, arch, file, d) ==
  LET cached_explanation == get_commit_analysis(data, sha)
      upd == CachedArchUpdate(cached_explanation)
  IN  { [expl |-> cached_explanation,
         arch |-> IF upd # << >> THEN upd[1] ELSE arch,
         file |-> IF upd # << >> THEN update_architecture(file, upd[1], sw) ELSE file,
         data |-> data, disk |-> d, hit |-> TRUE,
         explainCalls |-> 0, apiCalls |-> 0, saveAnalysisCalls |-> 0,
         ioErrors |-> 0,
         trace |-> HitTrace(upd # << >>)] :
        sw \in (IF upd # << >> THEN WriteOutcomes ELSE {"ok"}) }

\* app.py:382-404: analyze_current_commit when the Analyzer is asked
ResolveMiss(uc, hasFile, data, sha, idx, arch, file, d) ==
  UNION { {
    [expl |-> r.explanation,
     arch |-> IF Truthy(r.updated_arch) THEN r.updated_arch ELSE arch,
     file |-> IF Truthy(r.updated_arch)
                THEN update_architecture(file, r.updated_arch, sw) ELSE file,
     data |-> IF uc THEN PutAnalysis(data, sha, r.explanation) ELSE data,
     disk |-> IF uc
                THEN save_to_disk(hasFile, PutAnalysis(data, sha, r.explanation), d, cw)
                ELSE d,
     hit |-> FALSE,
     explainCalls |-> 1, apiCalls |-> r.api,
     saveAnalysisCalls |-> IF uc THEN 1 ELSE 0,
     ioErrors |-> IF uc THEN WriteErrors(hasFile, cw) ELSE 0,
     trace |-> MissTrace(uc, Truthy(r.updated_arch))] :
      sw \in (IF Truthy(r.updated_arch) THEN WriteOutcomes ELSE {"ok"}),
      cw \in (IF uc /\ hasFile THEN WriteOutcomes ELSE {"ok"}) } :
    r \in UNION { analyze_commit_changes(hasDiff) : hasDiff \in DiffOutcomes(idx) } }

\* app.py:362-404
analyze_current_commit(uc, hasFile, data, sha, idx, arch, file, d) ==
  IF uc /\ CacheHit(data, sha)
    THEN ResolveHit(data, sha, arch, file, d)
    ELSE ResolveMiss(uc, hasFile, data, sha, idx, arch, file, d)

-----------------------------------------------------------------------------
(* Navigation: on_next_commit (app.py:292-325) and on_previous_commit       *)
(* (app.py:327-360).  dir is "next" or "prev".                              *)

AtEdge(dir, idx, cs) == IF dir = "next" THEN AtLatest(idx, cs) ELSE AtFirst(idx)

Neighbour(dir, idx) == IF dir = "next" THEN NextIndex(idx) ELSE PrevIndex(idx)

\* variant: the notice shown on the screen is kept as the session's explanation
RefuseKeepingNotice(dir, why) ==
  /\ lastOp' = [OpBase EXCEPT !.kind = dir, !.result = "refused", !.mode = why]
  /\ last_explanation' = <<"NOTICE">>
  /\ UNCHANGED <<io_faulty, origins, repoLen, disk, archFile, phase, flagVars, gitVars, analyzer,
                 storage, cache_file, cache_data, architecture, session>>

\* app.py:303-308 / 338-343: the request is refused, nothing but the screen changes
Refuse(dir, why) ==
  /\ lastOp' = [OpBase EXCEPT !.kind = dir, !.result = "refused", !.mode = why]
  /\ UNCHANGED <<io_faulty, origins, repoLen, disk, archFile, phase, flagVars, gitVars, analyzer,
                 storage, cache_file, cache_data, architecture, last_explanation,
                 session>>

\* variant: the position is saved whether or not caching is enabled
SavePositionAlways(uc, hasFile, data, d, idx, cs, outcome) ==
  LET pos == get_progress(idx, cs)
      saved == PutPosition(data, pos[1] - 1, pos[2])
  IN  [data |-> saved, disk |-> save_to_disk(hasFile, saved, d, outcome), calls |-> 1,
       errors |-> WriteErrors(hasFile, outcome)]

\* variant: the 1-based progress number is saved as the index
SavePositionOneBased(uc, hasFile, data, d, idx, cs, outcome) ==
  IF uc
    THEN LET pos == get_progress(idx, cs)
             saved == PutPosition(data, pos[1], pos[2])
         IN  [data |-> saved, disk |-> save_to_disk(hasFile, saved, d, outcome), calls |-> 1,
              errors |-> WriteErrors(hasFile, outcome)]
    ELSE [data |-> data, disk |-> d, calls |-> 0, errors |-> 0]

\* variant: the position in memory is taken back when the write fails
SavePositionRollback(uc, hasFile, data, d, idx, cs, outcome) ==
  IF uc
    THEN LET pos == get_progress(idx, cs)
             saved == PutPosition(data, pos[1] - 1, pos[2])
         IN  [data |-> IF WriteErrors(hasFile, outcome) = 0 THEN saved ELSE data,
              disk |-> save_to_disk(hasFile, saved, d, outcome), calls |-> 1,
              errors |-> WriteErrors(hasFile, outcome)]
    ELSE [data |-> data, disk |-> d, calls |-> 0, errors |-> 0]

\* app.py:319-322 / 354-357 / 222-225
SavePosition(uc, hasFile, data, d, idx, cs, outcome) ==
  IF uc
    THEN LET pos == get_progress(idx, cs)
             saved == PutPosition(data, pos[1] - 1, pos[2])
         IN  [data |-> saved, disk |-> save_to_disk(hasFile, saved, d, outcome), calls |-> 1,
              errors |-> WriteErrors(hasFile, outcome)]
    ELSE [data |-> data, disk |-> d, calls |-> 0, errors |-> 0]

\* the request is accepted: checkout, Resolve, save the position
Accept(dir) ==
  LET idx == Neighbour(dir, current_commit_index)
      sha == CurrentSha(idx, commits)
  IN  /\ UNCHANGED <<io_faulty, origins, repoLen, flagVars, repo, repo_path, commits, analyzer,
                     storage, cache_file, session>>
      /\ IF IndexError(idx, commits)
           THEN \* the exception leaves the handler before the index is assigned
                /\ current_commit_index' = current_commit_index
                /\ phase' = "crashed"
                /\ lastOp' = [OpBase EXCEPT !.kind = dir, !.result = "crash"]
                /\ UNCHANGED <<disk, archFile, cache_data, architecture,
                               last_explanation>>
         ELSE
         /\ current_commit_index' = idx
         /\ IF ~analyzer
           THEN \* self.analyzer is None: analyze_commit_changes raises AttributeError
                /\ phase' = "crashed"
                /\ lastOp' = [OpBase EXCEPT !.kind = dir, !.result = "crash"]
                /\ UNCHANGED <<disk, archFile, cache_data, architecture,
                               last_explanation>>
           ELSE \E o \in analyze_current_commit(use_cache, cache_file, cache_data, sha,
                                                idx, architecture, archFile, disk),
                   pw \in WriteOutcomes :
                  LET p == SavePosition(use_cache, cache_file, o.data, o.disk, idx,
                                        commits, pw)
                  IN  /\ phase' = phase
                      /\ last_explanation' = o.expl
                      /\ architecture' = o.arch
                      /\ archFile' = o.file
                      /\ cache_data' = p.data
                      /\ disk' = p.disk
                      /\ lastOp' = [OpBase EXCEPT
                                      !.kind = dir, !.result = "ok", !.hit = o.hit,
                                      !.explainCalls = o.explainCalls,
                                      !.apiCalls = o.apiCalls,
                                      !.saveAnalysisCalls = o.saveAnalysisCalls,
                                      !.saveCursorCalls = p.calls,
                                      !.ioErrors = o.ioErrors + p.errors,
                                      !.target = idx, !.trace = o.trace]

Advance(dir) ==
  /\ phase \in {"ready", "stalled"}
  /\ IF NoRepository(repo, commits) THEN Refuse(dir, "norepo")
     ELSE IF AtEdge(dir, current_commit_index, commits) THEN Refuse(dir, "edge")
     ELSE \/ Refuse(dir, "checkout")      \* GitCommandError on checkout
          \/ Accept(dir)

on_next_commit == Advance("next")

on_previous_commit == Advance("prev")

-----------------------------------------------------------------------------
(* Attach: on_clone_repository (app.py:72-235)                               *)

AttachAllowed == phase \in {"setup", "loading"}

\* where a failed attempt leaves the user: the setup screen can try again, the
\* commit screen shown for a repository given on the command line stays
AfterFailure == IF phase = "loading" THEN "stalled" ELSE "setup"

AttachOp(result, mode) == [OpBase EXCEPT !.kind = "attach", !.result = result, !.mode = mode]

\* app.py:100-115 with git_handler.py:136-168 / 34-134: clone or load fails.
\* The path is assigned first (git_handler.py:59, 146); the handle is assigned
\* when the failure comes after the repository was opened, while its commits
\* are listed (git_handler.py:147-158, 111-124)
AttachLoadFails ==
  /\ AttachAllowed
  /\ repo_path' = TRUE
  /\ \E opened \in BOOLEAN : repo' = (repo \/ opened)
  /\ phase' = AfterFailure
  /\ lastOp' = AttachOp("failed", "load")
  /\ UNCHANGED <<io_faulty, origins, repoLen, disk, archFile, flagVars, commits,
                 current_commit_index, analyzer, storage, cache_file, cache_data,
                 architecture, last_explanation, session>>

\* git_handler.py:146-163: the repository is loaded
Loaded ==
  /\ repo' = TRUE
  /\ repo_path' = TRUE
  /\ commits' = RepoCommits(repoLen)

\* app.py:135-162: CodeAnalyzer() raises without an API key
AttachInitFails ==
  /\ AttachAllowed
  /\ ~api_key
  /\ Loaded
  /\ current_commit_index' = -1
  /\ phase' = AfterFailure
  /\ lastOp' = AttachOp("failed", "init")
  /\ UNCHANGED <<io_faulty, origins, repoLen, disk, archFile, flagVars, analyzer, storage, cache_file,
                 cache_data, architecture, last_explanation, session>>

\* app.py:150-162 with cache.py:46-59: load_cache lets an exception through;
\* the handler reports it and returns.  The analyzer, the storage and the
\* manifest path are assigned by then, the manifest in memory is not
AttachCacheLoadFails ==
  /\ AttachAllowed
  /\ api_key
  /\ use_cache /\ LoadRaises(disk)
  /\ Loaded
  /\ current_commit_index' = -1
  /\ analyzer' = TRUE
  /\ storage' = TRUE
  /\ cache_file' = TRUE
  /\ phase' = AfterFailure
  /\ lastOp' = AttachOp("failed", "cache")
  /\ UNCHANGED <<io_faulty, origins, repoLen, disk, archFile, flagVars, cache_data, architecture,
                 last_explanation, session>>

\* app.py:150-156: the manifest in memory once the analyzer and storage exist
DataAfterLoad == IF use_cache THEN load_cache(disk) ELSE cache_data

\* variant: the manifest file is opened also when caching is disabled
FileAlwaysLoaded == TRUE

\* app.py:151-152 with cache.py:46: the manifest path is set by load_cache only
FileAfterLoad == use_cache \/ cache_file

\* app.py:164-171 with git_handler.py:187-189: the first checkout fails
AttachFirstCheckoutFails ==
  /\ AttachAllowed
  /\ api_key
  /\ ~(use_cache /\ LoadRaises(disk))
  /\ Loaded
  /\ current_commit_index' = -1
  /\ analyzer' = TRUE
  /\ storage' = TRUE
  /\ cache_file' = FileAfterLoad
  /\ cache_data' = DataAfterLoad
  /\ phase' = AfterFailure
  /\ lastOp' = AttachOp("failed", "first")
  /\ UNCHANGED <<io_faulty, origins, repoLen, disk, archFile, flagVars, architecture, last_explanation,
                 session>>

\* app.py:173-175: update_total_commits
DataAfterTotal == update_total_commits(DataAfterLoad, repoLen).data

\* app.py:175: commit_info
CommitInfo == update_total_commits(DataAfterLoad, repoLen).info

\* app.py:178
SavedIndex == get_last_position(DataAfterTotal)[1]

\* app.py:179-184
ShouldResume ==
  should_resume(use_cache, auto_resume, SavedIndex, DataAfterTotal, repoLen)

\* the part of a successful Attach every path shares
AttachCommon ==
  /\ AttachAllowed
  /\ api_key
  /\ ~(use_cache /\ LoadRaises(disk))
  /\ Loaded
  /\ analyzer' = TRUE
  /\ storage' = TRUE
  /\ cache_file' = FileAfterLoad
  /\ phase' = "ready"
  /\ UNCHANGED <<io_faulty, origins, repoLen, flagVars>>

\* app.py:186-216 and 222-225: Resume
AttachResume ==
  /\ AttachCommon
  /\ ShouldResume
  /\ \E reached \in 0..ResumeRange(SavedIndex), tw \in WriteOutcomes, pw \in WriteOutcomes :
       LET cs == RepoCommits(repoLen)
           d1 == save_to_disk(FileAfterLoad, DataAfterTotal, disk, tw)
           p == SavePosition(use_cache, FileAfterLoad, DataAfterTotal, d1, reached, cs, pw)
       IN  /\ current_commit_index' = reached
           /\ architecture' = ResumeArchitecture(DataAfterTotal, cs, archFile)
           /\ last_explanation' = ResumeExplanation(DataAfterTotal, cs, SavedIndex)
           /\ cache_data' = p.data
           /\ disk' = p.disk
           /\ lastOp' = [AttachOp("ok", "resume") EXCEPT
                           !.totalCalls = 1, !.info = CommitInfo,
                           !.saveCursorCalls = p.calls,
                           !.ioErrors = WriteErrors(FileAfterLoad, tw) + p.errors,
                           !.steps = IF reached < ResumeRange(SavedIndex)
                                       THEN reached + 1 ELSE reached,
                           !.truncated = (reached < ResumeRange(SavedIndex)),
                           !.target = SavedIndex]
  /\ session' = [session EXCEPT !.fresh = FALSE]
  /\ UNCHANGED archFile

\* app.py:217-220, 237-254 and 222-225: Bootstrap reusing the cached analysis
AttachBootstrapCached ==
  /\ AttachCommon
  /\ ~ShouldResume
  /\ CacheHit(DataAfterTotal, ShortSha(RepoCommits(repoLen)[1]))
  /\ \E tw \in WriteOutcomes, pw \in WriteOutcomes :
       LET cs == RepoCommits(repoLen)
           cached_explanation == get_commit_analysis(DataAfterTotal, ShortSha(cs[1]))
           d1 == save_to_disk(FileAfterLoad, DataAfterTotal, disk, tw)
           p == SavePosition(use_cache, FileAfterLoad, DataAfterTotal, d1, 0, cs, pw)
       IN  /\ current_commit_index' = 0
           /\ last_explanation' = cached_explanation
           /\ architecture' = BootstrapArchitecture(cached_explanation, archFile)
           /\ cache_data' = p.data
           /\ disk' = p.disk
           /\ lastOp' = [AttachOp("ok", "bootstrap") EXCEPT
                           !.hit = TRUE, !.totalCalls = 1, !.info = CommitInfo,
                           !.saveCursorCalls = p.calls, !.target = 0,
                           !.ioErrors = WriteErrors(FileAfterLoad, tw) + p.errors]
  /\ session' = [session EXCEPT !.fresh = FALSE]
  /\ UNCHANGED archFile

\* app.py:260
important_extensions ==
  {".py", ".js", ".ts", ".java", ".go", ".rs", ".cpp", ".c", ".h", ".md", ".txt",
   ".json", ".yaml", ".yml", ".toml"}

\* app.py:263: file_tree[:20]
TreeLimit == 20

\* app.py:266: len(content) < 10000
ContentLimit == 10000

\* a file of the checkout: its extension and the length of its content
File(ext, len) == [ext |-> ext, len |-> len]

\* n files of the same kind
Files(n, ext, len) == [i \in 1..n |-> File(ext, len)]

\* git_handler.py:362-388: the sorted list of the checkout's files; a file is
\* named by its place in the list
get_file_tree ==
  { Files(TreeLimit - 1, ".png", 100) \o Files(3, ".py", 100),
    <<File(".py", ContentLimit), File(".md", ContentLimit + 2000), File(".py", 100),
      File(".txt", 0), File(".py", ContentLimit - 1), File(".png", 100)>> }

\* variant: the files are filtered before the first 20 are taken
FileSampleFilterFirst(file_tree) ==
  LET matching == { i \in 1..Len(file_tree) : file_tree[i].ext \in important_extensions }
      first == { i \in matching :
                   Cardinality({ j \in matching : j < i }) < TreeLimit }
  IN  { <<i, file_tree[i].len>> : i \in { k \in first :
                                            /\ file_tree[k].len > 0
                                            /\ file_tree[k].len < ContentLimit } }

\* app.py:261-267: file_contents, as the set of (file, length of the content
\* included) pairs
FileSample(file_tree) ==
  LET head == 1..(IF Len(file_tree) < TreeLimit THEN Len(file_tree) ELSE TreeLimit)
  IN  { <<i, file_tree[i].len>> : i \in { k \in head :
                                            /\ file_tree[k].ext \in important_extensions
                                            /\ file_tree[k].len > 0
                                            /\ file_tree[k].len < ContentLimit } }

\* app.py:217-220, 256-290 and 222-225: Bootstrap asking the Analyzer
AttachBootstrapFresh ==
  /\ AttachCommon
  /\ ~ShouldResume
  /\ ~CacheHit(DataAfterTotal, ShortSha(RepoCommits(repoLen)[1]))
  /\ \E a \in analyze_initial_architecture, tw \in WriteOutcomes,
        sw \in WriteOutcomes, cw \in WriteOutcomes, pw \in WriteOutcomes,
        file_tree \in get_file_tree :
       LET cs == RepoCommits(repoLen)
           expl == InitialExplanation(a)
           d1 == save_to_disk(FileAfterLoad, DataAfterTotal, disk, tw)
           data2 == IF use_cache THEN PutAnalysis(DataAfterTotal, ShortSha(cs[1]), expl)
                                 ELSE DataAfterTotal
           d2 == IF use_cache THEN save_to_disk(FileAfterLoad, data2, d1, cw) ELSE d1
           p == SavePosition(use_cache, FileAfterLoad, data2, d2, 0, cs, pw)
       IN  /\ current_commit_index' = 0
           /\ architecture' = a
           /\ archFile' = save_architecture(archFile, a, sw)
           /\ last_explanation' = expl
           /\ session' = [fresh |-> (use_cache /\ disk.kind = "nofile"),
                           bootText |-> IF use_cache /\ disk.kind = "nofile"
                                          THEN expl ELSE None]
           /\ cache_data' = p.data
           /\ disk' = p.disk
           /\ lastOp' = [AttachOp("ok", "bootstrap") EXCEPT
                           !.describeCalls = 1, !.apiCalls = 1, !.totalCalls = 1, !.info = CommitInfo,
                           !.files = file_tree, !.sample = FileSample(file_tree),
                           !.saveAnalysisCalls = IF use_cache THEN 1 ELSE 0,
                           !.saveCursorCalls = p.calls, !.target = 0,
                           !.ioErrors = WriteErrors(FileAfterLoad, tw) + p.errors
                                          + (IF use_cache THEN WriteErrors(FileAfterLoad, cw)
                                                          ELSE 0),
                           !.trace = <<"describe", "arch">>
                                       \o (IF use_cache THEN <<"cache">> ELSE << >>)]

on_clone_repository ==
  \/ AttachLoadFails
  \/ AttachInitFails
  \/ AttachCacheLoadFails
  \/ AttachFirstCheckoutFails
  \/ AttachResume
  \/ AttachBootstrapCached
  \/ AttachBootstrapFresh

-----------------------------------------------------------------------------
(* AnswerQuestion: on_ask_question (app.py:430-456)                          *)

\* variant: the answer is kept as the session's explanation
on_ask_question_remembering ==
  /\ phase \in {"ready", "stalled"}
  /\ analyzer
  /\ lastOp' = [OpBase EXCEPT !.kind = "ask", !.apiCalls = 1]
  /\ last_explanation' = <<"ANSWER">>
  /\ UNCHANGED <<io_faulty, origins, repoLen, disk, archFile, phase, flagVars, gitVars, analyzer,
                 storage, cache_file, cache_data, architecture, session>>

\* app.py:430-456: the chat screen is opened from the commit screen; the
\* context is read, the answer is shown on the chat screen
on_ask_question ==
  /\ phase \in {"ready", "stalled"}
  /\ IF ~analyzer
       THEN \* self.analyzer is None: answer_question raises AttributeError
            /\ phase' = "crashed"
            /\ lastOp' = [OpBase EXCEPT !.kind = "ask", !.result = "crash"]
       ELSE /\ phase' = phase
            \* analyzer.py:200-208: answer_question returns the answer or the
            \* text of its failure; either goes to the chat screen only
            /\ lastOp' = [OpBase EXCEPT !.kind = "ask", !.apiCalls = 1]
  /\ UNCHANGED <<io_faulty, origins, repoLen, disk, archFile, flagVars, gitVars, analyzer,
                 storage, cache_file, cache_data, architecture, last_explanation,
                 session>>

-----------------------------------------------------------------------------

Next ==
  \/ Quit
  \/ Start
  \/ on_clone_repository
  \/ on_next_commit
  \/ on_previous_commit
  \/ on_ask_question

Spec == Init /\ [][Next]_vars

\* the same program on a file system whose writes may fail
InitIO ==
  /\ io_faulty = "open"
  /\ origins = {<<"alice", "proj">>}
  /\ repoLen \in 1..MaxCommits
  /\ use_cache \in BOOLEAN
  /\ auto_resume \in BOOLEAN
  /\ api_key \in BOOLEAN
  /\ repo_url \in origins
  /\ phase \in {"loading", "setup"}
  /\ disk = NoFile
  /\ archFile = None
  /\ repo = FALSE
  /\ repo_path = FALSE
  /\ commits = << >>
  /\ current_commit_index = -1
  /\ analyzer = FALSE
  /\ storage = FALSE
  /\ cache_file = FALSE
  /\ cache_data = EmptyData
  /\ architecture = None
  /\ last_explanation = None
  /\ lastOp = OpBase
  /\ session = NoSession

SpecIO == InitIO /\ [][Next]_vars

\* the same program on a file system where a write, once the file is opened
\* and truncated, may fail before the content is complete
InitTorn ==
  /\ io_faulty = "write"
  /\ origins = {<<"alice", "proj">>}
  /\ repoLen \in 1..MaxCommits
  /\ use_cache \in BOOLEAN
  /\ auto_resume \in BOOLEAN
  /\ api_key \in BOOLEAN
  /\ repo_url \in origins
  /\ phase \in {"loading", "setup"}
  /\ disk = NoFile
  /\ archFile = None
  /\ repo = FALSE
  /\ repo_path = FALSE
  /\ commits = << >>
  /\ current_commit_index = -1
  /\ analyzer = FALSE
  /\ storage = FALSE
  /\ cache_file = FALSE
  /\ cache_data = EmptyData
  /\ architecture = None
  /\ last_explanation = None
  /\ lastOp = OpBase
  /\ session = NoSession

SpecTorn == InitTorn /\ [][Next]_vars

\* the same program used on two sources that have the same name
InitOrigin ==
  /\ io_faulty = "none"
  /\ origins = Origins
  /\ repoLen \in 1..MaxCommits
  /\ use_cache \in BOOLEAN
  /\ auto_resume \in BOOLEAN
  /\ api_key \in BOOLEAN
  /\ repo_url \in origins
  /\ phase \in {"loading", "setup"}
  /\ disk = NoFile
  /\ archFile = None
  /\ repo = FALSE
  /\ repo_path = FALSE
  /\ commits = << >>
  /\ current_commit_index = -1
  /\ analyzer = FALSE
  /\ storage = FALSE
  /\ cache_file = FALSE
  /\ cache_data = EmptyData
  /\ architecture = None
  /\ last_explanation = None
  /\ lastOp = OpBase
  /\ session = NoSession

SpecOrigin == InitOrigin /\ [][Next]_vars

-----------------------------------------------------------------------------
(* Properties *)

Nav == {"next", "prev"}

Navigated == lastOp.kind \in Nav /\ lastOp.result = "ok"

Resumed == lastOp.kind = "attach" /\ lastOp.result = "ok" /\ lastOp.mode = "resume"

\* C1: on a loaded repository with N commits the cursor stays within
\* [-1, N-1]; an accepted Advance moves it by exactly +1 (forward) or -1
\* (backward), no request moves it further; forward at N-1 and backward at 0
\* are refused as "already at edge" and leave the cursor where it is.
C1_MonotonicCursor ==
  /\ [](current_commit_index \in (-1)..(Len(commits) - 1))
  /\ [][(lastOp'.kind \in Nav /\ ~NoRepository(repo, commits)) =>
          /\ lastOp'.result = "ok" =>
               current_commit_index' =
                 current_commit_index + (IF lastOp'.kind = "next" THEN 1 ELSE -1)
          /\ lastOp'.result = "refused" =>
               current_commit_index' = current_commit_index
          /\ current_commit_index' - current_commit_index \in {-1, 0, 1}
          /\ (\/ lastOp'.kind = "next" /\ current_commit_index = Len(commits) - 1
              \/ lastOp'.kind = "prev" /\ current_commit_index = 0) =>
               /\ lastOp'.result = "refused"
               /\ lastOp'.mode = "edge"
               /\ current_commit_index' = current_commit_index]_vars

C1_Witness ==
  /\ lastOp.kind = "next" /\ lastOp.result = "refused" /\ lastOp.mode = "edge"
  /\ Len(commits) >= 2
  /\ current_commit_index = Len(commits) - 1

\* C2: a refused Advance (edge reached or checkout failure) leaves the last
\* explanation, the architecture document, the manifest in memory and on
\* disk, and the architecture file as they were, and asks the Analyzer nothing.
C2_RefusedAdvanceFrame ==
  [][(lastOp'.kind \in Nav /\ lastOp'.result = "refused") =>
       /\ last_explanation' = last_explanation
       /\ architecture' = architecture
       /\ cache_data' = cache_data
       /\ disk' = disk
       /\ archFile' = archFile
       /\ lastOp'.explainCalls = 0
       /\ lastOp'.describeCalls = 0
       /\ lastOp'.apiCalls = 0]_vars

C2_Witness ==
  /\ lastOp.kind = "prev" /\ lastOp.result = "refused" /\ lastOp.mode = "checkout"
  /\ last_explanation # None
  /\ has_cache_for_repo(cache_data)

\* C3: with caching enabled, an Advance that lands on a commit for which an
\* earlier Resolve saved an analysis adopts exactly that saved text and does
\* not invoke the Analyzer.
C3_ResolveIdempotent ==
  [][(/\ use_cache
      /\ lastOp'.kind \in Nav /\ lastOp'.result = "ok"
      /\ CurrentSha(current_commit_index', commits) \in DOMAIN cache_data.commits) =>
       /\ last_explanation' =
            cache_data.commits[CurrentSha(current_commit_index', commits)]
       /\ lastOp'.explainCalls = 0]_vars

\* C4: on a repository with no manifest and caching enabled, Attach performs
\* Bootstrap with one Analyzer call; the first Advance(forward) after it calls
\* the Analyzer once more; every Advance(backward) that returns to commit 0
\* calls it zero times and sets the explanation to the Bootstrap text.
C4_ScenarioA ==
  [][/\ (/\ use_cache /\ disk.kind = "nofile"
         /\ lastOp'.kind = "attach" /\ lastOp'.result = "ok") =>
          /\ lastOp'.mode = "bootstrap"
          /\ lastOp'.describeCalls = 1
          /\ session'.fresh
          /\ session'.bootText = last_explanation'
     /\ (/\ session.fresh /\ lastOp.kind = "attach"
         /\ lastOp'.kind = "next" /\ lastOp'.result = "ok") =>
          /\ current_commit_index' = 1
          /\ lastOp'.explainCalls = 1
     /\ (/\ session.fresh
         /\ lastOp'.kind = "prev" /\ lastOp'.result = "ok"
         /\ current_commit_index' = 0) =>
          /\ lastOp'.explainCalls = 0
          /\ lastOp'.describeCalls = 0
          /\ last_explanation' = session.bootText]_vars

C4_Witness ==
  /\ session.fresh /\ use_cache
  /\ lastOp.kind = "prev" /\ lastOp.result = "ok"
  /\ current_commit_index = 0
  /\ last_explanation = session.bootText
  /\ 2 \in DOMAIN cache_data.commits

\* C5: with caching disabled every successful Advance invokes
\* analyze_commit_changes once, and calls neither save_commit_analysis nor
\* save_last_position.
C5_NoCacheAlwaysAnalyzes ==
  (~use_cache /\ Navigated) =>
     /\ lastOp.explainCalls = 1
     /\ ~lastOp.hit
     /\ lastOp.saveAnalysisCalls = 0
     /\ lastOp.saveCursorCalls = 0

\* a backward step lands on a commit the session has been on before
C5_Witness ==
  /\ ~use_cache /\ lastOp.kind = "prev" /\ lastOp.result = "ok"
  /\ lastOp.explainCalls = 1

\* C6: while caching is disabled no handler writes the manifest file.
C6_NoCacheNoManifestWrite ==
  [][(~use_cache /\ phase # "exited") => disk' = disk]_vars

\* Attach ran update_total_commits in memory and the file kept the old total
C6_Witness ==
  /\ ~use_cache /\ lastOp.kind = "attach" /\ lastOp.result = "ok"
  /\ disk.kind = "ok"
  /\ disk.data.total_commits # cache_data.total_commits

\* C7 as stated: Resume with saved index k performs exactly k forward steps
\* and lands at k, with no Analyzer call.
C7_ResumeExactlyK ==
  Resumed =>
    /\ lastOp.steps = lastOp.target
    /\ current_commit_index = lastOp.target
    /\ lastOp.describeCalls = 0 /\ lastOp.explainCalls = 0 /\ lastOp.apiCalls = 0

\* C7 amended: Resume with saved index k starts from ordinal 0 and never
\* invokes the Analyzer; it makes at most max(k,0) forward steps, and when no
\* forward checkout fails it makes exactly max(k,0) steps and lands at
\* max(k,0), which is k for every k >= 0.
C7_ResumeSteps ==
  Resumed =>
    LET k == IF lastOp.target > 0 THEN lastOp.target ELSE 0
    IN  /\ lastOp.describeCalls = 0 /\ lastOp.explainCalls = 0 /\ lastOp.apiCalls = 0
        /\ lastOp.steps <= k
        /\ current_commit_index <= k
        /\ ~lastOp.truncated => (lastOp.steps = k /\ current_commit_index = k)
        /\ lastOp.truncated => current_commit_index = lastOp.steps - 1

C7_Witness ==
  /\ Resumed /\ ~lastOp.truncated
  /\ lastOp.target >= 1
  /\ current_commit_index = lastOp.target
  /\ last_explanation = Placeholder

\* C8: after Resume the explanation is the cached explanation of the commit
\* the cursor landed on, or the placeholder when that commit has none.
C8_ResumeExplainsLanding ==
  Resumed =>
    LET cached == get_commit_analysis(cache_data, CurrentSha(current_commit_index, commits))
    IN  last_explanation = (IF Truthy(cached) THEN cached ELSE Placeholder)

\* C9: Attach performs Resume exactly when caching is enabled, the resume flag
\* is set or a position was saved, the manifest has an entry, and the saved
\* index is a commit ordinal of the current history; otherwise Bootstrap.
C9_ResumePolicy ==
  [][(lastOp'.kind = "attach" /\ lastOp'.result = "ok") =>
       LET m == load_cache(disk)
           claimed == /\ use_cache
                      /\ (auto_resume \/ m.last_commit_index >= 0)
                      /\ DOMAIN m.commits # {}
                      /\ m.last_commit_index \in 0..(repoLen - 1)
       IN  /\ lastOp'.mode \in {"resume", "bootstrap"}
           /\ (lastOp'.mode = "resume") <=> claimed]_vars

\* C10: when a forward step fails during Resume, Attach still completes, the
\* cursor is the last index reached, and that index (not the requested one)
\* is the cursor saved in the manifest, in memory and on disk.
C10_ResumeTruncation ==
  (Resumed /\ lastOp.truncated) =>
     /\ phase = "ready"
     /\ current_commit_index = lastOp.steps - 1
     /\ current_commit_index < lastOp.target
     /\ lastOp.saveCursorCalls = 1
     /\ cache_data.last_commit_index = current_commit_index
     /\ disk.kind = "ok"
     /\ disk.data.last_commit_index = current_commit_index

C10_Witness ==
  /\ Resumed /\ lastOp.truncated
  /\ current_commit_index < lastOp.target
  /\ cache_data.last_commit_index = current_commit_index

Bootstrapped == lastOp.kind = "attach" /\ lastOp.result = "ok" /\ lastOp.mode = "bootstrap"

\* number of occurrences of an event in a handler's trace
Count(t, ev) == Cardinality({ i \in 1..Len(t) : t[i] = ev })

\* C11: after Resume the current architecture document is the document the
\* ArchitectureStore holds, which is the one the previous session persisted
\* last, every adopted update included.
C11_ResumeRestoresArchitecture ==
  Resumed => architecture = archFile

\* C12: a Resolve writes the cache at most once and the architecture file at
\* most once; when the Analyzer is asked both writes come after its call; when
\* the cache answers the Analyzer is not called and the cache is not written.
C12_ResolveWriteOrder ==
  Navigated =>
    LET t == lastOp.trace
    IN  /\ Count(t, "cache") <= 1
        /\ Count(t, "arch") <= 1
        /\ Count(t, "cache") = lastOp.saveAnalysisCalls
        /\ Count(t, "analyze") = lastOp.explainCalls
        /\ ~lastOp.hit =>
             /\ Count(t, "analyze") = 1
             /\ \A i \in 1..Len(t) :
                  t[i] \in {"cache", "arch"} =>
                    \E j \in 1..(i - 1) : t[j] = "analyze"
        /\ lastOp.hit =>
             /\ Count(t, "analyze") = 0
             /\ Count(t, "cache") = 0

\* a miss with caching enabled whose answer replaced the architecture
C12_Witness ==
  /\ Navigated /\ ~lastOp.hit
  /\ lastOp.trace = <<"analyze", "arch", "cache">>

\* C13: when the cache answers a Resolve, the explanation is the cached text;
\* the architecture document and the architecture file become the section
\* after the "updated architecture" heading exactly when the cached text has
\* the heading and the section lacks the "no update needed" sentinel, and
\* neither changes otherwise.
C13_HitAdoption ==
  [][(lastOp'.kind \in Nav /\ lastOp'.result = "ok" /\ lastOp'.hit) =>
       LET sha == CurrentSha(current_commit_index', commits)
           cached == cache_data.commits[sha]
           section == Strip(SplitSecond(cached, "UPD"))
           adopts == Contains(cached, "UPD") /\ ~Contains(section, "NOUPD")
       IN  /\ sha \in DOMAIN cache_data.commits
           /\ last_explanation' = cached
           /\ adopts => (architecture' = section /\ archFile' = section)
           /\ ~adopts => (architecture' = architecture /\ archFile' = archFile)]_vars

\* a cached answer that carries an architecture section replaces a different
\* document
C13_Witness ==
  /\ Navigated /\ lastOp.hit
  /\ lastOp.trace = <<"arch">>
  /\ last_explanation = <<"E2", "UPD", "A2">>
  /\ architecture = <<"A2">> /\ archFile = <<"A2">>

\* C14: when the Analyzer is asked and returns a replacement architecture
\* document (anything but None), it becomes the current document and the
\* content of the architecture file; when it returns None both are unchanged.
C14_MissAdoption ==
  [][(lastOp'.kind \in Nav /\ lastOp'.result = "ok" /\ ~lastOp'.hit) =>
       LET updated_arch == UpdatedArch(last_explanation')
       IN  /\ updated_arch # None =>
                (architecture' = updated_arch /\ archFile' = updated_arch)
           /\ updated_arch = None =>
                (architecture' = architecture /\ archFile' = archFile)]_vars

\* the Analyzer failed in the Resolve of the last Advance
AnalyzerFailed ==
  Navigated /\ lastOp.explainCalls = 1 /\ last_explanation = ExplainError

\* C15: a Resolve whose Analyzer call fails completes: the explanation is the
\* failure text, the architecture document and file are unchanged, the cursor
\* has its new value and the process keeps running; the next handler does not
\* crash, and both Advance requests remain available.
C15_AnalyzerFailureRecovered ==
  /\ [][(/\ lastOp'.kind \in Nav /\ lastOp'.result = "ok"
         /\ lastOp'.explainCalls = 1 /\ last_explanation' = ExplainError) =>
          /\ phase' = phase
          /\ architecture' = architecture
          /\ archFile' = archFile
          /\ current_commit_index' =
               current_commit_index + (IF lastOp'.kind = "next" THEN 1 ELSE -1)]_vars
  /\ [][AnalyzerFailed => lastOp'.result # "crash"]_vars
  /\ [](AnalyzerFailed =>
          /\ phase \in {"ready", "stalled"}
          /\ ~NoRepository(repo, commits)
          /\ analyzer)

\* the failure happened in the middle of the history, both directions are open
C15_Witness ==
  /\ AnalyzerFailed /\ phase = "ready"
  /\ current_commit_index = 1
  /\ Len(commits) >= 2

\* C16: a Bootstrap that finds no cached analysis of the first commit asks the
\* Analyzer for the initial architecture once, keeps the answer as the current
\* architecture document and as the architecture file, sets the explanation
\* synthesized around it, and with caching enabled saves that explanation
\* under the first commit's identifier, in memory and on disk.
C16_BootstrapFresh ==
  (Bootstrapped /\ ~lastOp.hit) =>
     /\ lastOp.describeCalls = 1
     /\ lastOp.explainCalls = 0
     /\ architecture \in DescribeResponses \cup {DescribeError}
     /\ archFile = architecture
     /\ last_explanation = <<"INIT", "WS", "BOILER", "WS">> \o architecture \o <<"WS">>
     /\ current_commit_index = 0
     /\ use_cache =>
          /\ lastOp.saveAnalysisCalls = 1
          /\ get_commit_analysis(cache_data, ShortSha(commits[1])) = last_explanation
          /\ disk.kind = "ok"
          /\ get_commit_analysis(load_cache(disk), ShortSha(commits[1])) = last_explanation
     /\ ~use_cache => lastOp.saveAnalysisCalls = 0

C16_Witness ==
  /\ Bootstrapped /\ ~lastOp.hit /\ use_cache
  /\ architecture = <<"ARCH", "CR", "LF", "A1">>
  /\ disk.kind = "ok" /\ 1 \in DOMAIN load_cache(disk).commits

\* C17: a Bootstrap that finds a cached analysis of the first commit asks the
\* Analyzer nothing, sets the cached text as the explanation, and takes for
\* the architecture document the text after the "initial commit" heading of
\* the cached text, or what the architecture file holds when the heading is
\* absent.
C17_BootstrapCached ==
  (Bootstrapped /\ lastOp.hit) =>
     /\ lastOp.describeCalls = 0
     /\ lastOp.explainCalls = 0
     /\ lastOp.apiCalls = 0
     /\ lastOp.saveAnalysisCalls = 0
     /\ last_explanation = get_commit_analysis(cache_data, ShortSha(commits[1]))
     /\ last_explanation # None
     /\ Contains(last_explanation, "INIT") =>
          architecture = Strip(SubSeq(last_explanation,
                                      FirstIndex(last_explanation, "INIT") + 1,
                                      Len(last_explanation)))
     /\ ~Contains(last_explanation, "INIT") => architecture = load_architecture(archFile)

\* the cached text has the heading
C17_Witness ==
  /\ Bootstrapped /\ lastOp.hit
  /\ Contains(last_explanation, "INIT")
  /\ architecture = <<"BOILER", "WS", "ARCH", "CR", "LF", "A1">>

\* C18: once Attach has finished through Bootstrap or Resume, the session has
\* a current architecture document: it is never absent.
C18_ArchitecturePresent ==
  phase = "ready" => architecture # None

\* C19: an Attach whose clone or load fails leaves the repository handle, the
\* repository path, the commit list, the cursor, the manifest, the storage
\* binding, the architecture document and the last explanation as they were,
\* and asks the Analyzer nothing.
C19_FailedAttachFrame ==
  [][(lastOp'.kind = "attach" /\ lastOp'.result = "failed" /\ lastOp'.mode = "load") =>
       /\ repo' = repo
       /\ repo_path' = repo_path
       /\ commits' = commits
       /\ current_commit_index' = current_commit_index
       /\ cache_data' = cache_data
       /\ disk' = disk
       /\ storage' = storage
       /\ archFile' = archFile
       /\ architecture' = architecture
       /\ last_explanation' = last_explanation
       /\ lastOp'.describeCalls = 0 /\ lastOp'.explainCalls = 0]_vars

\* C20: after a clone or load failure the process has terminated, and after
\* every recoverable failure (a refused Advance, a failed analysis, a
\* truncated Resume) it is still running.
C20_SourceUnavailableTerminates ==
  /\ (lastOp.kind = "attach" /\ lastOp.result = "failed" /\ lastOp.mode = "load") =>
        phase \in {"exited", "crashed"}
  /\ (\/ lastOp.kind \in Nav /\ lastOp.result = "refused"
      \/ AnalyzerFailed
      \/ Resumed /\ lastOp.truncated) =>
        phase \notin {"exited", "crashed"}

\* the commit a handler ends on, as the key of its cache entry
LandingSha == CurrentSha(current_commit_index', commits')

\* the manifest in memory when a handler's first cache operation runs
ManifestBefore == IF lastOp'.kind = "attach" THEN DataAfterLoad ELSE cache_data

\* C22: AnswerQuestion changes nothing of the session: the cursor, the
\* checked-out commit and the repository, the architecture document, the
\* last explanation, the manifest in memory and on disk and the architecture
\* file are after it what they were before, whether the Analyzer answered
\* or failed.
C22_AnswerQuestionStateless ==
  [][lastOp'.kind = "ask" =>
       /\ current_commit_index' = current_commit_index
       /\ commits' = commits
       /\ repo' = repo
       /\ repo_path' = repo_path
       /\ architecture' = architecture
       /\ last_explanation' = last_explanation
       /\ cache_data' = cache_data
       /\ disk' = disk
       /\ archFile' = archFile]_vars

\* a question asked on the second commit of a session that has a document,
\* an explanation and a cached analysis
C22_Witness ==
  /\ lastOp.kind = "ask" /\ lastOp.apiCalls = 1
  /\ current_commit_index = 1
  /\ architecture # None
  /\ last_explanation # None
  /\ has_cache_for_repo(cache_data)
  /\ disk.kind = "ok"

\* C23: update_total_commits(new) on a manifest whose total is old returns
\* new_commits = max(0, new - old), old_total = old and new_total = new, also
\* when new < old, so new_commits is never negative; afterwards the
\* manifest's total is new.
C23_TotalCommitsDelta ==
  [][(lastOp'.kind = "attach" /\ lastOp'.totalCalls = 1) =>
       LET old == DataAfterLoad.total_commits
           new == Len(commits')
       IN  /\ lastOp'.info.new_commits = (IF new - old > 0 THEN new - old ELSE 0)
           /\ lastOp'.info.new_commits >= 0
           /\ lastOp'.info.old_total = old
           /\ lastOp'.info.new_total = new
           /\ cache_data'.total_commits = new]_vars

\* the history was cut back between two sessions
C23_Witness ==
  /\ lastOp.kind = "attach" /\ lastOp.totalCalls = 1
  /\ lastOp.info.old_total > lastOp.info.new_total
  /\ lastOp.info.new_commits = 0
  /\ cache_data.total_commits = lastOp.info.new_total

\* C24: in every reachable state of the manifest coverage_percent is within
\* 0..100 (0..1000 tenths), the number of cached commits does not exceed a
\* positive total, and coverage_percent is 0 when the total is 0.
C24_CoverageInvariant ==
  LET stats == get_cache_stats(cache_data)
  IN  /\ stats.coverage_percent \in 0..1000
      /\ stats.total_commits > 0 => stats.commits_cached <= stats.total_commits
      /\ stats.total_commits = 0 => stats.coverage_percent = 0

C26_LoadNeverFails ==
  [][(/\ lastOp'.kind = "attach"
      /\ use_cache /\ api_key
      /\ disk.kind \in {"corrupt", "undecodable"}
      /\ lastOp'.mode \notin {"load", "first"}) =>
       /\ lastOp'.result = "ok"
       /\ lastOp'.mode = "bootstrap"
       /\ lastOp'.info.old_total = 0
       /\ phase' = "ready"]_vars

\* C27: a manifest write that fails with an I/O error is swallowed: the
\* handler completes, and the manifest in memory holds what was saved, the
\* analysis of the landing commit, the position and the total.
C27_WriteFailureSwallowed ==
  [][(lastOp'.ioErrors > 0) =>
       /\ lastOp'.result = "ok"
       /\ phase' \notin {"crashed", "exited"}
       /\ lastOp'.saveAnalysisCalls = 1 =>
            get_commit_analysis(cache_data', LandingSha) = last_explanation'
       /\ lastOp'.saveCursorCalls = 1 =>
            get_last_position(cache_data') = <<current_commit_index', Len(commits')>>
       /\ lastOp'.totalCalls = 1 => cache_data'.total_commits = Len(commits')]_vars

\* both writes of an Advance failed: the file has neither the new analysis
\* nor the new position, the manifest in memory has both
C27_Witness ==
  /\ lastOp.kind = "next" /\ lastOp.result = "ok"
  /\ lastOp.saveAnalysisCalls = 1 /\ lastOp.ioErrors = 2
  /\ current_commit_index = 1
  /\ get_commit_analysis(cache_data, 2) = last_explanation
  /\ get_last_position(cache_data)[1] = 1
  /\ get_commit_analysis(load_cache(disk), 2) = None
  /\ get_last_position(load_cache(disk))[1] # 1

\* C28: before any save the architecture file does not exist and load
\* returns nothing; after a save or update has succeeded the file exists and
\* load returns exactly the content written.
C28_ArchitectureStoreRoundTrip ==
  /\ [](archFile = None =>
          ~architecture_exists(archFile) /\ load_architecture(archFile) = None)
  /\ [][archFile' # archFile =>
          /\ architecture_exists(archFile')
          /\ load_architecture(archFile') = architecture']_vars

\* C29: with caching enabled a failed analysis is saved like any other: the
\* failure text is in the manifest in memory and in the file afterwards,
\* every later Advance onto that commit adopts it without asking the
\* Analyzer and leaves it in place, and an Attach of a later session keeps
\* the entry.
C29_FailedAnalysisCached ==
  /\ [][(/\ use_cache /\ lastOp'.kind \in Nav /\ lastOp'.result = "ok"
         /\ lastOp'.explainCalls = 1 /\ last_explanation' = ExplainError) =>
          /\ get_commit_analysis(cache_data', LandingSha) = ExplainError
          /\ get_commit_analysis(load_cache(disk'), LandingSha) = ExplainError]_vars
  /\ [][(/\ use_cache /\ lastOp'.kind \in Nav /\ lastOp'.result = "ok"
         /\ get_commit_analysis(cache_data, LandingSha) = ExplainError) =>
          /\ last_explanation' = ExplainError
          /\ lastOp'.hit
          /\ lastOp'.explainCalls = 0 /\ lastOp'.apiCalls = 0
          /\ get_commit_analysis(cache_data', LandingSha) = ExplainError]_vars
  /\ [][(/\ use_cache /\ lastOp'.kind = "attach" /\ lastOp'.result = "ok"
         /\ disk.kind = "ok") =>
          \A sha \in DOMAIN load_cache(disk).commits :
            load_cache(disk).commits[sha] = ExplainError =>
              /\ get_commit_analysis(cache_data', sha) = ExplainError
              /\ (LandingSha = sha /\ lastOp'.mode = "resume"
                  /\ ~lastOp'.truncated /\ lastOp'.target >= 0) =>
                   last_explanation' = ExplainError /\ lastOp'.apiCalls = 0]_vars

\* a session resumed on the commit whose analysis failed in an earlier
\* session shows the failure text
C29_Witness ==
  /\ Resumed /\ ~lastOp.truncated
  /\ current_commit_index = 1
  /\ last_explanation = ExplainError
  /\ lastOp.apiCalls = 0
  /\ get_commit_analysis(cache_data, 2) = ExplainError

\* C30: with caching enabled and no write failure, save_commit_analysis is
\* called only for a commit the manifest has no entry for, so at most once
\* for each commit over all sessions.
C30_WriteOncePerKey ==
  [][(lastOp'.result = "ok" /\ lastOp'.saveAnalysisCalls = 1) =>
       LandingSha \notin DOMAIN ManifestBefore.commits]_vars

\* C31: with caching enabled, whenever the session is idle after a completed
\* Attach (so also after every accepted or refused Advance) the position
\* saved in the manifest, in memory and in the file, is the cursor, and the
\* manifest's total is the number of commits.
C31_CursorInSync ==
  (use_cache /\ phase = "ready") =>
     /\ get_last_position(cache_data) = <<current_commit_index, Len(commits)>>
     /\ cache_exists(disk)
     /\ get_last_position(load_cache(disk)) = <<current_commit_index, Len(commits)>>

\* a backward step from the second commit was refused by the checkout
C31_Witness ==
  /\ use_cache /\ phase = "ready"
  /\ lastOp.kind = "prev" /\ lastOp.result = "refused" /\ lastOp.mode = "checkout"
  /\ current_commit_index = 1
  /\ get_last_position(load_cache(disk)) = <<1, 2>>

\* C32: a navigation request made in the ready state completes in the ready
\* state, accepted (on a cache hit, a miss or an Analyzer failure, the
\* cursor moved by one and an explanation set) or refused (the cursor where
\* it was); a Resume completes in the ready state after at most
\* max(saved index, 0) forward steps.
C32_RequestsComplete ==
  [][  /\ ((phase = "ready" /\ lastOp'.kind \in Nav) =>
          /\ phase' = "ready"
          /\ lastOp'.result \in {"ok", "refused"}
          /\ lastOp'.result = "ok" =>
               /\ current_commit_index' - current_commit_index \in {-1, 1}
               /\ last_explanation' # None
               /\ lastOp'.explainCalls = (IF lastOp'.hit THEN 0 ELSE 1)
          /\ lastOp'.result = "refused" =>
               current_commit_index' = current_commit_index)
       /\ ((lastOp'.kind = "attach" /\ lastOp'.mode = "resume") =>
          /\ phase' = "ready"
          /\ lastOp'.steps <= (IF lastOp'.target > 0 THEN lastOp'.target ELSE 0)
          /\ current_commit_index' <= lastOp'.steps)]_vars

\* the Analyzer failed on the way to the newest commit and the session is
\* ready at that commit
C32_Witness ==
  /\ phase = "ready"
  /\ lastOp.kind = "next" /\ lastOp.result = "ok"
  /\ lastOp.explainCalls = 1 /\ last_explanation = ExplainError
  /\ current_commit_index = Len(commits) - 1
  /\ Len(commits) >= 2

\* the sample the first 20 matching files give, each with its content cut at
\* 10,000 characters
ClaimedSample(file_tree) ==
  LET matching == { i \in 1..Len(file_tree) : file_tree[i].ext \in important_extensions }
      first == { i \in matching :
                   Cardinality({ j \in matching : j < i }) < TreeLimit }
  IN  { <<i, IF file_tree[i].len < ContentLimit THEN file_tree[i].len ELSE ContentLimit>> :
          i \in first }

\* C33 as stated: the file sample a Bootstrap passes to the Analyzer is made
\* of the first 20 files of the checkout that match the allow-listed
\* extensions, each with its content cut at 10,000 characters.
C33_FileSampleAsStated ==
  (Bootstrapped /\ lastOp.describeCalls = 1) =>
     lastOp.sample = ClaimedSample(lastOp.files)

\* C33: the file sample a Bootstrap passes to the Analyzer is made of those
\* of the first 20 files of the checkout that match the allow-listed
\* extensions and whose content is not empty and shorter than 10,000
\* characters, each with its whole content.
C33_FileSample ==
  (Bootstrapped /\ lastOp.describeCalls = 1) =>
     LET file_tree == lastOp.files
         included == { pair[1] : pair \in lastOp.sample }
     IN  /\ \A pair \in lastOp.sample :
               /\ pair[1] \in 1..Len(file_tree) /\ pair[1] <= TreeLimit
               /\ pair[2] = file_tree[pair[1]].len
         /\ \A i \in 1..Len(file_tree) :
               i \in included <=>
                 /\ i <= TreeLimit
                 /\ file_tree[i].ext \in important_extensions
                 /\ file_tree[i].len \in 1..(ContentLimit - 1)

\* the twentieth file is in the sample; the next one, which matches too and
\* is the second matching file of the checkout, is not
C33_Witness ==
  /\ Bootstrapped /\ lastOp.describeCalls = 1
  /\ Len(lastOp.files) > TreeLimit
  /\ lastOp.files[TreeLimit + 1].ext \in important_extensions
  /\ lastOp.sample = {<<TreeLimit, lastOp.files[TreeLimit].len>>}

\* C34: a handler all of whose manifest writes failed leaves the manifest
\* file as it was: a later load finds the manifest and returns every analysis
\* and the position that were in the file before the handler ran.
C34_FailedWriteKeepsManifest ==
  [][(/\ lastOp'.ioErrors > 0
      /\ lastOp'.ioErrors = lastOp'.saveAnalysisCalls + lastOp'.saveCursorCalls
                              + lastOp'.totalCalls
      /\ cache_exists(disk)) =>
       /\ cache_exists(disk')
       /\ \A sha \in DOMAIN load_cache(disk).commits :
            get_commit_analysis(load_cache(disk'), sha) =
              get_commit_analysis(load_cache(disk), sha)
       /\ get_last_position(load_cache(disk')) = get_last_position(load_cache(disk))]_vars

\* C35: an Advance the cache answers, for a commit past the first, adopts
\* the architecture update the Analyzer returned with that text on the miss:
\* the same replacement document in memory and in the file, or none.
C35_HitReplaysMiss ==
  [][(/\ use_cache /\ lastOp'.kind \in Nav /\ lastOp'.result = "ok"
      /\ lastOp'.hit /\ current_commit_index' > 0) =>
       LET updated_arch == UpdatedArch(get_commit_analysis(cache_data, LandingSha))
       IN  /\ architecture' = (IF Truthy(updated_arch) THEN updated_arch
                                                       ELSE architecture)
           /\ archFile' = (IF Truthy(updated_arch) THEN updated_arch
                                                   ELSE archFile)]_vars

\* the text an earlier Bootstrap cached for the first commit, as an Attach
\* finds it
FirstBlob == get_commit_analysis(DataAfterLoad, ShortSha(RepoCommits(repoLen)[1]))

\* C36: when an Attach (Bootstrap or Resume) finds the text an earlier
\* Bootstrap cached for the first commit, the architecture document it
\* derives from it is the document that Bootstrap described and stored,
\* the one the cached text was built from.
C36_BlobYieldsStoredDocument ==
  [][(/\ use_cache /\ lastOp'.kind = "attach" /\ lastOp'.result = "ok"
      /\ lastOp'.describeCalls = 0
      /\ Contains(FirstBlob, "INIT")) =>
       FirstBlob = InitialExplanation(architecture')]_vars

\* C37: with caching enabled a Resolve asks the Analyzer exactly when the
\* manifest has no entry for the commit, and a Bootstrap exactly when it has
\* none for the first commit, whatever the text of the entry is.
C37_EntryMeansHit ==
  [][  /\ ((use_cache /\ lastOp'.kind \in Nav /\ lastOp'.result = "ok") =>
          /\ lastOp'.hit = (LandingSha \in DOMAIN cache_data.commits)
          /\ lastOp'.explainCalls =
               (IF LandingSha \in DOMAIN cache_data.commits THEN 0 ELSE 1))
       /\ ((/\ use_cache /\ lastOp'.kind = "attach" /\ lastOp'.result = "ok"
            /\ lastOp'.mode = "bootstrap") =>
          lastOp'.describeCalls =
            (IF FirstBlob # None THEN 0 ELSE 1))]_vars

\* the document the Bootstrap of this session described
BootDocument ==
  CHOOSE a \in analyze_initial_architecture : InitialExplanation(a) = session.bootText

\* the architecture document after commits 0..i, as the Analyzer's answers
\* of this session give it
RECURSIVE ReplayArchitecture(_)
ReplayArchitecture(i) ==
  IF i <= 0 THEN BootDocument
  ELSE LET updated_arch == UpdatedArch(get_commit_analysis(cache_data, CurrentSha(i, commits)))
       IN  IF Truthy(updated_arch) THEN updated_arch ELSE ReplayArchitecture(i - 1)

\* C38: a manifest made for one source is not used for another source of
\* the same name: an Attach that finds such a manifest does not Resume from
\* its position, and its Bootstrap asks the Analyzer for the first commit
\* instead of taking the text cached for the other source.
C38_ManifestValidated ==
  [][(/\ use_cache /\ lastOp'.kind = "attach" /\ lastOp'.result = "ok"
      /\ cache_exists(disk) /\ disk.origin # repo_url
      /\ RepoName(disk.origin) = RepoName(repo_url)) =>
       /\ lastOp'.mode = "bootstrap"
       /\ lastOp'.describeCalls = 1]_vars

\* C39: in a session that started with Bootstrap on a repository without a
\* manifest, with the cursor at index i the architecture document, in memory
\* and in the file, is the one replaying commits 0..i gives.
C39_ArchitectureFollowsCursor ==
  (session.fresh /\ use_cache /\ phase = "ready") =>
     /\ architecture = ReplayArchitecture(current_commit_index)
     /\ archFile = ReplayArchitecture(current_commit_index)

\* C40: whenever the session is idle after a successful Attach the
\* architecture document in memory is the content of the architecture file.
C40_MemoryEqualsStore ==
  phase = "ready" => architecture = archFile

====
